---- MODULE Spec2Model ----
(***************************************************************************)
(* Model of the RSA comparison-oracle attack.                              *)
(*   src/challenge/challenge.py   the oracle server                        *)
(*   src/solution/ring_element.py divmod and gcd of a Euclidean domain     *)
(*                                element, built on >= only                *)
(*   src/solution/solver.py       the attack session and the retry driver  *)
(*                                                                         *)
(* The specifications share the variables and the divmod/gcd step         *)
(* operators:                                                              *)
(*   Spec        the retry driver and its sessions against the server,     *)
(*               every query meeting its own response line                 *)
(*   SpecExact   the same session against a stand-in oracle whose          *)
(*               threshold is drawn once instead of per query              *)
(*   SpecNoisy   the same session against a stand-in oracle that answers   *)
(*               the comparisons of the gcd arbitrarily                    *)
(*   SpecInt     divmod/gcd on the plain integers, exact comparator        *)
(*   SpecIntFair SpecInt with the progress of a sequential program         *)
(*   SpecWire    the oracle() calls of a session on the connection as a    *)
(*               byte stream                                               *)
(*   SpecServer  the server loop with any client                           *)
(***************************************************************************)
EXTENDS Integers, Sequences, FiniteSets, TLC

(***************************************************************************)
(* Bounds of the model.                                                    *)
(***************************************************************************)
\* |self|, |other| of the plain-integer instantiation
MaxVal == 17
\* largest power of two the exponential search of a session may test
MaxB == 16
\* gcd iterations a session is followed for
MaxIter == 6
\* sessions the retry driver is followed for
MaxAttempts == 2
\* the same two limits for a session against the noisy stand-in oracle
NoisyMaxB == 4
NoisyMaxIter == 2

(***************************************************************************)
(* Program constants.  The 1024-bit key is scaled down to a 7-bit modulus;  *)
(* the divisor 37 of max_rnd is scaled to 7 with it, so that the thresholds *)
(* still span several values and stay below half the modulus.             *)
(***************************************************************************)
\* key = RSA.generate(1024): the primes, the public and the private exponent
P == 7
Q == 11
N == P * Q
E == 7
D == 13
\* FLAG, scaled to the one byte b'H'
FLAG == <<72>>
\* random.randint(7, max_rnd)
RND_MIN == 7
\* max_rnd = key.n // 37
RND_DIV == 7
max_rnd == N \div RND_DIV
\* 2 ** 13 and 2 ** 11, scaled (the ratio 4 is kept)
MAX_REQUESTS == 16
SETUP_MAX_INVOCATIONS == 4

(***************************************************************************)
(* Number theory used by both sides.                                       *)
(***************************************************************************)
RECURSIVE PowRed(_, _, _)
\* square and multiply on a base already reduced to 0..n-1
PowRed(b, e, n) ==
    IF e = 0 THEN 1 % n
    ELSE IF e % 2 = 0 THEN PowRed((b * b) % n, e \div 2, n)
    ELSE (b * PowRed((b * b) % n, e \div 2, n)) % n

\* pow(b, e, n) for e >= 0: the result is in 0..n-1, also for negative b
PowMod(b, e, n) == PowRed(b % n, e, n)

\* pow(x, -1, n): the inverse in 0..n-1; -1 stands for the ValueError
ModInv(x, n) ==
    IF \E y \in 0..(n - 1) : (x * y) % n = 1 % n
    THEN CHOOSE y \in 0..(n - 1) : (x * y) % n = 1 % n
    ELSE -1

RECURSIVE bytes_to_long(_)
\* big-endian bytes to integer
bytes_to_long(s) ==
    IF s = <<>> THEN 0
    ELSE 256 * bytes_to_long(SubSeq(s, 1, Len(s) - 1)) + s[Len(s)]

RECURSIVE long_to_bytes(_)
\* integer to big-endian bytes; 0 gives one zero byte
long_to_bytes(x) ==
    IF x < 256 THEN <<x>>
    ELSE Append(long_to_bytes(x \div 256), x % 256)

\* bytes.decode('ascii') succeeds iff every byte is below 128
DecodesAscii(s) == \A i \in 1..Len(s) : s[i] < 128

encrypted_flag == PowMod(bytes_to_long(FLAG), E, N)

(***************************************************************************)
(* Element arithmetic.  An element is held as an integer: the value itself *)
(* on the plain integers, the pre_image for RingElement.                   *)
(***************************************************************************)
ElemAdd(x, y) == x + y
ElemMul(x, s) == x * s
\* __sub__: self + (other * (-1))
ElemSub_swapped(x, y) == ElemAdd(y, ElemMul(x, -1))
ElemSub(x, y) == ElemAdd(x, ElemMul(y, -1))

\* RingElement.image
Image(pre) == (encrypted_flag * PowMod(pre, E, N)) % N
\* RingElement.__eq__
RingEq(x, y) == (Image(x) % N) = (Image(y) % N)
\* b != self.zero() for RingElement, zero() = RingElement(0)
RingIsZero(x) == RingEq(x, 0)
\* the plain integers: zero() = 0, == and >= are the natural ones
IntIsZero(x) == x = 0
IntGe_strict(x, y) == x > y
IntGe(x, y) == x >= y
\* zero() and != of the instantiation dom: "int" or "ring"
IsZero(dom, x) == IF dom = "int" THEN IntIsZero(x) ELSE RingIsZero(x)

(***************************************************************************)
(* divmod and gcd as a step machine.  A frame is the local state of        *)
(* gcd(self, other) (or of one divmod(self, other)); f.at is the           *)
(* comparison it stands before:                                            *)
(*   "exp"  other * b >= self            (line 61)                         *)
(*   "bin"  self >= other * mid          (line 70)                         *)
(*   "fin"  self >= other * b            (line 75)                         *)
(*   "ret"  the operation has returned                                     *)
(***************************************************************************)
NoFrame ==
    [op |-> "none", at |-> "none", self |-> 0, other |-> 0, a |-> 0, b |-> 0,
     alpha_a |-> 0, beta_a |-> 0, alpha_b |-> 0, beta_b |-> 0,
     lo |-> 0, hi |-> 0, quotient |-> 0, remainder |-> 0, iteration |-> 0]

\* first exponent produced by naturals()
naturals_offset == 0
RECURSIVE Pow2(_)
Pow2(i) == IF i = 0 THEN 1 ELSE 2 * Pow2(i - 1)

\* entry of divmod(f.a, f.b): the exponential search starts at 2 ** 0
DivmodEnter(f) == [f EXCEPT !.at = "exp", !.hi = Pow2(naturals_offset), !.lo = 0]

\* while b != self.zero(): one more divmod, or return a, alpha_a, beta_a
GcdLoop(f, dom) ==
    IF IsZero(dom, f.b) THEN [f EXCEPT !.at = "ret"] ELSE DivmodEnter(f)

\* gcd(self, other) up to its first comparison
GcdStart(self, other, dom) ==
    GcdLoop([NoFrame EXCEPT !.op = "gcd", !.self = self, !.other = other,
                            !.a = self, !.b = other,
                            !.alpha_a = 1, !.beta_a = 0,
                            !.alpha_b = 0, !.beta_b = 1, !.iteration = 1],
            dom)

\* divmod(self, other) up to its first comparison
DivmodStart(self, other) ==
    DivmodEnter([NoFrame EXCEPT !.op = "divmod", !.self = self, !.other = other,
                                !.a = self, !.b = other, !.iteration = 1])

\* mid = (b + a) // 2
Mid_low(f) == f.lo + 1
Mid(f) == (f.hi + f.lo) \div 2

\* the operands of the comparison  CmpLeft(f) >= CmpRight(f)  the frame stands before
CmpLeft(f) ==
    IF f.at = "exp" THEN ElemMul(f.b, f.hi) ELSE f.a
CmpRight(f) ==
    IF f.at = "exp" THEN f.a
    ELSE IF f.at = "bin" THEN ElemMul(f.b, Mid(f))
    ELSE ElemMul(f.b, f.hi)

\* while b > a + 1: the next comparison is a binary-search one or the final one
BinLoop(f) == [f EXCEPT !.at = IF f.hi > f.lo + 1 THEN "bin" ELSE "fin"]

\* DivmodFinish with the coefficient swap of line 108 left out
DivmodFinish_noswap(f, ans, dom) ==
    LET quotient == IF ans THEN f.hi ELSE f.lo
        remainder == ElemSub(f.a, ElemMul(f.b, quotient))
        g == [f EXCEPT !.quotient = quotient, !.remainder = remainder]
    IN  IF f.op = "divmod" THEN [g EXCEPT !.at = "ret"]
        ELSE GcdLoop([g EXCEPT !.a = f.b, !.b = remainder,
                               !.alpha_a = f.alpha_a - quotient * f.alpha_b,
                               !.beta_a = f.beta_a - quotient * f.beta_b,
                               !.iteration = f.iteration + 1],
                     dom)

\* lines 75-78 and, inside gcd, lines 103-110 and the loop test of line 95
DivmodFinish(f, ans, dom) ==
    LET quotient == IF ans THEN f.hi ELSE f.lo
        remainder == ElemSub(f.a, ElemMul(f.b, quotient))
        g == [f EXCEPT !.quotient = quotient, !.remainder = remainder]
    IN  IF f.op = "divmod" THEN [g EXCEPT !.at = "ret"]
        ELSE GcdLoop([g EXCEPT !.a = f.b, !.b = remainder,
                               !.alpha_a = f.alpha_b, !.beta_a = f.beta_b,
                               !.alpha_b = f.alpha_a - quotient * f.alpha_b,
                               !.beta_b = f.beta_a - quotient * f.beta_b,
                               !.iteration = f.iteration + 1],
                     dom)

\* the frame after the comparison it stands before has answered ans
Step(f, ans, dom) ==
    IF f.at = "exp" THEN
        IF ans THEN BinLoop([f EXCEPT !.lo = 0])
        ELSE [f EXCEPT !.hi = 2 * f.hi]
    ELSE IF f.at = "bin" THEN
        IF ans THEN BinLoop([f EXCEPT !.lo = Mid(f)])
        ELSE BinLoop([f EXCEPT !.hi = Mid(f)])
    ELSE DivmodFinish(f, ans, dom)

AtComparison(f) == f.at \in {"exp", "bin", "fin"}

(***************************************************************************)
(* State.                                                                  *)
(***************************************************************************)
VARIABLES
    pc,        \* position of the driver / session, "INT" in SpecInt
    attempt,   \* attempt of the retry driver
    uses,      \* oracle invocations counted by the session
    sent,      \* queries that went out on the connection of the session
    ph,        \* sampling loop: "k" or "l"
    k, l,      \* pre_image of k and of l, 0 while unassigned
    kAcc, lAcc,\* the last k >= zero, l >= zero returned true
    f,         \* frame of k.gcd(l), or of the plain-integer operation
    io,        \* oracle(): "idle", or "wait" between send and recv
    inflight,  \* query the server has not read yet, -1 if none
    reply,     \* response the client has not read yet, "" if none
    idx,       \* loop index of the server on this connection
    fixed_rnd, \* threshold of the exact stand-in oracle, 0 with the real
               \* server, -1 with the noisy stand-in oracle
    result,    \* what try_attack returned: <<>> for None, else the flag bytes
    exc,       \* the exception the session raised, "" if none
    srv,       \* SpecWire/SpecServer: where the server process stands
    c2s,       \* lines written to the server that it has not read yet
    rx,        \* output of the server that the client has not read yet
    msg        \* what the last sock.recv of the client returned

vars == <<pc, attempt, uses, sent, ph, k, l, kAcc, lAcc, f, io, inflight,
          reply, idx, fixed_rnd, result, exc, srv, c2s, rx, msg>>

\* what a comparison on the plain integers leaves alone: all but the frame
\* and the count of comparisons
intVars == <<pc, attempt, sent, ph, k, l, kAcc, lAcc, io, inflight,
             reply, idx, fixed_rnd, result, exc, srv, c2s, rx, msg>>

\* the byte-stream view of a connection, used by SpecWire and SpecServer only
wireVars == <<srv, c2s, rx, msg>>
WireOff == srv = "none" /\ c2s = <<>> /\ rx = <<>> /\ msg = <<>>

(***************************************************************************)
(* SpecInt: divmod and gcd on the plain integers, exact comparator.  uses   *)
(* counts the comparisons, as the oracle of the ring counts its calls.      *)
(***************************************************************************)
\* uses += 1 (line 36)
Count_twice(u) == u + 2
Count(u) == u + 1

IntVals == (0 - MaxVal)..MaxVal
\* no terminating exponential search on IntVals passes this power of two
IntMaxPow == 4 * MaxVal

InitInt ==
    /\ pc = "INT"
    /\ attempt = 0 /\ uses = 0 /\ sent = 0 /\ ph = "k"
    /\ k = 0 /\ l = 0 /\ kAcc = FALSE /\ lAcc = FALSE
    /\ io = "idle" /\ inflight = -1 /\ reply = "" /\ idx = 0
    /\ fixed_rnd = 0 /\ result = <<>> /\ exc = ""
    /\ WireOff
    /\ \E self \in IntVals, other \in IntVals :
          \/ f = GcdStart(self, other, "int")
          \/ other # 0 /\ f = DivmodStart(self, other)

\* one comparison of the exponential search
IntExp ==
    /\ pc = "INT" /\ f.at = "exp" /\ f.hi <= IntMaxPow
    /\ f' = Step(f, IntGe(CmpLeft(f), CmpRight(f)), "int")
    /\ uses' = Count(uses)
    /\ UNCHANGED intVars

\* one comparison of the binary search
IntBin ==
    /\ pc = "INT" /\ f.at = "bin"
    /\ f' = Step(f, IntGe(CmpLeft(f), CmpRight(f)), "int")
    /\ uses' = Count(uses)
    /\ UNCHANGED intVars

\* the final comparison, the remainder and the gcd bookkeeping
IntFin ==
    /\ pc = "INT" /\ f.at = "fin"
    /\ f' = Step(f, IntGe(CmpLeft(f), CmpRight(f)), "int")
    /\ uses' = Count(uses)
    /\ UNCHANGED intVars

NextInt == IntExp \/ IntBin \/ IntFin

SpecInt == InitInt /\ [][NextInt]_vars

\* the same with the progress of a sequential program: a comparison that can
\* be made is made
SpecIntFair == SpecInt /\ WF_vars(NextInt)

(***************************************************************************)
(* The oracle server, src/challenge/challenge.py.                          *)
(***************************************************************************)
\* oracle(cipher) for one draw rnd_number of random.randint(7, max_rnd)
Oracle(cipher, rnd_number) == PowMod(cipher, D, N) < rnd_number

\* the thresholds a query can meet: the per-query draw of the server, or the
\* one value the exact stand-in oracle was built with
RndSet == IF fixed_rnd > 0 THEN {fixed_rnd} ELSE RND_MIN..max_rnd

\* the noisy stand-in oracle answers the self-tests of the sampling like the
\* server and the comparisons of the gcd arbitrarily
Noisy == fixed_rnd = -1 /\ pc = "GCD_COMPUTATION"

\* the server has left its loop; the connection is at end of file
\* (a stand-in oracle is a function, it has no request limit)
ServerGone == fixed_rnd = 0 /\ idx >= MAX_REQUESTS

\* one turn of the server loop: read a number, print the oracle response
ServerRespond ==
    /\ inflight # -1 /\ ~ServerGone
    /\ \/ \E rnd_number \in RndSet :
             reply' = IF Oracle(inflight, rnd_number) THEN "True" ELSE "False"
       \/ Noisy /\ reply' \in {"True", "False"}
    /\ inflight' = -1
    /\ idx' = idx + 1
    /\ UNCHANGED <<pc, attempt, uses, sent, ph, k, l, kAcc, lAcc, f, io,
                   fixed_rnd, result, exc>>
    /\ UNCHANGED wireVars

(***************************************************************************)
(* The session try_attack() and the retry driver, src/solution/solver.py.  *)
(***************************************************************************)
None == <<>>

SessionReset ==
    /\ uses' = 0 /\ sent' = 0 /\ ph' = "k"
    /\ k' = 0 /\ l' = 0 /\ kAcc' = FALSE /\ lAcc' = FALSE
    /\ f' = NoFrame /\ io' = "idle" /\ inflight' = -1 /\ reply' = ""
    /\ idx' = 0 /\ result' = None /\ exc' = ""
    /\ UNCHANGED wireVars

InitSession ==
    /\ pc = "START" /\ attempt = 1
    /\ uses = 0 /\ sent = 0 /\ ph = "k"
    /\ k = 0 /\ l = 0 /\ kAcc = FALSE /\ lAcc = FALSE
    /\ f = NoFrame /\ io = "idle" /\ inflight = -1 /\ reply = ""
    /\ idx = 0 /\ result = None /\ exc = ""
    /\ WireOff

Init == InitSession /\ fixed_rnd = 0

\* sock.connect, the banner and uses = 0 (lines 22-31)
Connect ==
    /\ pc = "START"
    /\ pc' = "SAMPLING"
    /\ SessionReset
    /\ UNCHANGED <<attempt, fixed_rnd>>

\* sock.connect or the first recv raises OSError: nothing catches it
ConnectFault ==
    /\ pc = "START"
    /\ pc' = "CRASHED"
    /\ exc' = "OSError"
    /\ UNCHANGED <<attempt, uses, sent, ph, k, l, kAcc, lAcc, f, io, inflight,
                   reply, idx, fixed_rnd, result>>
    /\ UNCHANGED wireVars

\* the query of  self >= other : oracle((self - other).image)
Query(self, other) == Image(ElemSub(self, other))

\* a sampling loop draws its candidate and sends candidate >= zero
\* (lines 103/107 up to sock.send of line 38)
SampleSend ==
    /\ pc = "SAMPLING" /\ io = "idle"
    /\ \E x \in 1..N :
          /\ IF ph = "k" THEN k' = x /\ l' = l ELSE l' = x /\ k' = k
          /\ inflight' = Query(x, 0)
    /\ uses' = Count(uses)
    /\ sent' = sent + 1
    /\ io' = "wait"
    /\ UNCHANGED <<pc, attempt, ph, kAcc, lAcc, f, reply, idx, fixed_rnd, result,
                   exc>>
    /\ UNCHANGED wireVars

\* what sock.recv returns: the response line, or '' at end of file
RecvReady == reply # "" \/ ServerGone
\* 'True' in msg
Answer == reply = "True"

\* AfterSample with the budget test of lines 110-114 left out
AfterSample_nobudget(ans) ==
    IF ~ans /\ uses <= SETUP_MAX_INVOCATIONS
    THEN UNCHANGED <<pc, ph, f, result>>
    ELSE IF ph = "k"
    THEN ph' = "l" /\ UNCHANGED <<pc, f, result>>
    ELSE /\ pc' = "GCD_COMPUTATION"
         /\ f' = GcdStart(k, l, "ring")
         /\ UNCHANGED <<ph, result>>

\* the rest of the sampling loops and the budget test (lines 39-40, 103-116),
\* up to the first comparison of k.gcd(l)
AfterSample(ans) ==
    IF ~ans /\ uses <= SETUP_MAX_INVOCATIONS
    THEN UNCHANGED <<pc, ph, f, result>>
    ELSE IF ph = "k"
    THEN ph' = "l" /\ UNCHANGED <<pc, f, result>>
    ELSE IF uses > SETUP_MAX_INVOCATIONS
    THEN pc' = "FAILED" /\ result' = None /\ UNCHANGED <<ph, f>>
    ELSE /\ pc' = "GCD_COMPUTATION"
         /\ f' = GcdStart(k, l, "ring")
         /\ UNCHANGED <<ph, result>>

SampleRecv ==
    /\ pc = "SAMPLING" /\ io = "wait" /\ RecvReady
    /\ IF ph = "k" THEN kAcc' = Answer /\ lAcc' = lAcc
                   ELSE lAcc' = Answer /\ kAcc' = kAcc
    /\ AfterSample(Answer)
    /\ io' = "idle" /\ reply' = ""
    /\ UNCHANGED <<attempt, uses, sent, k, l, inflight, idx, fixed_rnd, exc>>
    /\ UNCHANGED wireVars

\* OSError out of oracle() while sampling: raised by send (uses is already
\* counted, the candidate already bound) or by recv; nothing catches it
SampleFault ==
    /\ pc = "SAMPLING"
    /\ \/ /\ io = "idle"
          /\ \E x \in 1..N :
                IF ph = "k" THEN k' = x /\ l' = l ELSE l' = x /\ k' = k
          /\ uses' = Count(uses)
       \/ /\ io = "wait"
          /\ UNCHANGED <<k, l, uses>>
    /\ pc' = "CRASHED"
    /\ exc' = "OSError"
    /\ UNCHANGED <<attempt, sent, ph, kAcc, lAcc, f, io, inflight, reply, idx,
                   fixed_rnd, result>>
    /\ UNCHANGED wireVars

\* a comparison of divmod sends its query (lines 61/70/75, 36-38)
GcdSend ==
    /\ pc = "GCD_COMPUTATION" /\ io = "idle" /\ AtComparison(f)
    /\ f.hi <= (IF fixed_rnd = -1 THEN NoisyMaxB ELSE MaxB)
    /\ f.iteration <= (IF fixed_rnd = -1 THEN NoisyMaxIter ELSE MaxIter)
    /\ inflight' = Query(CmpLeft(f), CmpRight(f))
    /\ uses' = Count(uses)
    /\ sent' = sent + 1
    /\ io' = "wait"
    /\ UNCHANGED <<pc, attempt, ph, k, l, kAcc, lAcc, f, reply, idx, fixed_rnd,
                   result, exc>>
    /\ UNCHANGED wireVars

\* the comparison answers; divmod and gcd run on to the next comparison
GcdRecv ==
    /\ pc = "GCD_COMPUTATION" /\ io = "wait" /\ RecvReady
    /\ f' = Step(f, Answer, "ring")
    /\ io' = "idle" /\ reply' = ""
    /\ UNCHANGED <<pc, attempt, uses, sent, ph, k, l, kAcc, lAcc, inflight, idx,
                   fixed_rnd, result, exc>>
    /\ UNCHANGED wireVars

\* where a session goes when OSError leaves k.gcd(l) (lines 124-127)
GcdFaultTarget_uncaught == "CRASHED"
GcdFaultTarget == "FAILED"

\* OSError out of oracle() inside k.gcd(l): except OSError returns None
GcdFault ==
    /\ pc = "GCD_COMPUTATION" /\ AtComparison(f)
    /\ \/ io = "idle" /\ uses' = Count(uses)
       \/ io = "wait" /\ uses' = uses
    /\ pc' = GcdFaultTarget
    /\ exc' = "OSError"
    /\ result' = None
    /\ UNCHANGED <<attempt, sent, ph, k, l, kAcc, lAcc, f, io, inflight, reply,
                   idx, fixed_rnd>>
    /\ UNCHANGED wireVars

\* k.gcd(l) has returned (line 123)
GcdReturn ==
    /\ pc = "GCD_COMPUTATION" /\ f.at = "ret"
    /\ pc' = "VALIDATING"
    /\ UNCHANGED <<attempt, uses, sent, ph, k, l, kAcc, lAcc, f, io, inflight,
                   reply, idx, fixed_rnd, result, exc>>
    /\ UNCHANGED wireVars

\* gcd.image == 1 (line 132)
Coprime_nonzero(g) == Image(g) # 0
Coprime(g) == Image(g) = 1

\* pow(alpha * k.pre_image + beta * l.pre_image, -1, n) (line 134)
Reconstruct_swapped(alpha, kk, beta, ll) == ModInv(alpha * ll + beta * kk, N)
Reconstruct(alpha, kk, beta, ll) == ModInv(alpha * kk + beta * ll, N)

\* lines 132-137; ValueError of pow and UnicodeDecodeError are not caught
Validate ==
    /\ pc = "VALIDATING"
    /\ IF Coprime(f.a)
       THEN LET inv == Reconstruct(f.alpha_a, k, f.beta_a, l)
                flag == long_to_bytes(inv)
            IN  IF inv = -1
                THEN pc' = "CRASHED" /\ exc' = "ValueError" /\ result' = None
                ELSE IF ~DecodesAscii(flag)
                THEN pc' = "CRASHED" /\ exc' = "UnicodeDecodeError"
                     /\ result' = None
                ELSE pc' = "SUCCEEDED" /\ result' = flag /\ exc' = exc
       ELSE pc' = "FAILED" /\ result' = None /\ exc' = exc
    /\ UNCHANGED <<attempt, uses, sent, ph, k, l, kAcc, lAcc, f, io, inflight,
                   reply, idx, fixed_rnd>>
    /\ UNCHANGED wireVars

\* if (flag := try_attack()) is not None: break  (lines 142-143)
DriverGoesOn_always(flag) == TRUE
DriverGoesOn(flag) == flag = None

\* try_attack() returned None: the for loop of __main__ goes on
Retry ==
    /\ pc \in {"FAILED", "SUCCEEDED"} /\ DriverGoesOn(result)
    /\ attempt < MaxAttempts
    /\ pc' = "START"
    /\ attempt' = attempt + 1
    /\ SessionReset
    /\ UNCHANGED fixed_rnd

\* try_attack() returned the flag: break
Break ==
    /\ pc = "SUCCEEDED" /\ ~DriverGoesOn(result)
    /\ pc' = "DONE"
    /\ UNCHANGED <<attempt, uses, sent, ph, k, l, kAcc, lAcc, f, io, inflight,
                   reply, idx, fixed_rnd, result, exc>>
    /\ UNCHANGED wireVars

Next ==
    \/ Connect \/ ConnectFault
    \/ SampleSend \/ SampleRecv \/ SampleFault
    \/ GcdSend \/ GcdRecv \/ GcdFault \/ GcdReturn
    \/ Validate \/ Retry \/ Break
    \/ ServerRespond

Spec == Init /\ [][Next]_vars

(***************************************************************************)
(* The same session against the deterministic stand-in oracle: one         *)
(* threshold for the whole run, no transport faults.                       *)
(***************************************************************************)
InitExact == InitSession /\ fixed_rnd \in RND_MIN..max_rnd

NextExact ==
    \/ Connect
    \/ SampleSend \/ SampleRecv
    \/ GcdSend \/ GcdRecv \/ GcdReturn
    \/ Validate \/ Retry \/ Break
    \/ ServerRespond

SpecExact == InitExact /\ [][NextExact]_vars

(***************************************************************************)
(* The same session against the noisy stand-in oracle.                     *)
(***************************************************************************)
InitNoisy == InitSession /\ fixed_rnd = -1

SpecNoisy == InitNoisy /\ [][NextExact]_vars

(***************************************************************************)
(* Claims on the plain integers.                                           *)
(***************************************************************************)
IntDivmodReturned == pc = "INT" /\ f.op = "divmod" /\ f.at = "ret"
IntGcdReturned == pc = "INT" /\ f.op = "gcd" /\ f.at = "ret"

\* C1: for every integer self and every non-zero integer other, of either
\* sign, divmod(self, other) returns (q, r) with self = other*q + r and r
\* strictly smaller than other.
C1_DivmodEuclidean ==
    IntDivmodReturned =>
        /\ f.self = f.other * f.quotient + f.remainder
        /\ f.remainder < f.other

\* C2: whenever gcd(self, other) returns (g, alpha, beta) under the exact
\* comparator, alpha*self + beta*other = g, also for other = 0, self = 0
\* and self < other.
C2_GcdBezout ==
    IntGcdReturned => f.alpha_a * f.self + f.beta_a * f.other = f.a

\* gcd returned after at least two divisions, from self < other
C2_Witness ==
    /\ IntGcdReturned
    /\ 0 < f.self /\ f.self < f.other
    /\ f.iteration >= 3
    /\ f.a = 1

(***************************************************************************)
(* Claims on the session.                                                  *)
(***************************************************************************)
\* the plaintext of secret_transform
Secret == PowMod(encrypted_flag, D, N)
\* the plaintext of the image of a pre_image
Hidden(pre) == (Secret * pre) % N

RECURSIVE NatGcd(_, _)
NatGcd(x, y) == IF y = 0 THEN x ELSE NatGcd(y, x % y)

Returned == pc \in {"SUCCEEDED", "DONE"}
\* the session failed in the sampling phase without an exception
SetupFailed == pc = "FAILED" /\ f.op = "none" /\ exc = ""

\* C3: at the validation step with gcd_element.image = 1, the modular inverse
\* of alpha*k.pre_image + beta*l.pre_image is the hidden secret, and the value
\* a SUCCEEDED session returns is the secret, whatever the oracle answered.
C3_ReturnsSecret ==
    /\ (pc = "VALIDATING" /\ Image(f.a) = 1)
          => ModInv(f.alpha_a * k + f.beta_a * l, N) = Secret
    /\ Returned => result = long_to_bytes(Secret) /\ result = FLAG

\* the quotient of the first of the two divisions of a returned gcd
FirstQuotient == (f.self - f.a) \div f.other
\* the gcd returned after two divisions
TwoDivisions ==
    f.op = "gcd" /\ f.at = "ret" /\ f.iteration = 3 /\ Hidden(f.other) # 0

\* a session succeeded although the oracle lied in the first division: its
\* quotient is not the quotient of the hidden plaintexts
C3_Witness ==
    /\ pc = "SUCCEEDED" /\ result = FLAG
    /\ TwoDivisions
    /\ FirstQuotient # Hidden(f.self) \div Hidden(f.other)

\* C4: a session never issues more than SETUP_MAX_INVOCATIONS comparisons
\* during the sampling of k and l before it declares the budget exceeded.
C4_SetupBudget ==
    (pc = "SAMPLING" \/ SetupFailed) => sent <= SETUP_MAX_INVOCATIONS

\* C5: with the deterministic stand-in oracle and two accepted samples whose
\* hidden plaintexts are coprime, the first session ends SUCCEEDED and returns
\* the planted secret.
C5_ExactOracleSucceeds ==
    (/\ attempt = 1
     /\ pc \in {"FAILED", "SUCCEEDED", "CRASHED", "DONE"}
     /\ kAcc /\ lAcc
     /\ NatGcd(Hidden(k), Hidden(l)) = 1)
        => Returned /\ result = FLAG

\* C6: every comparison advances the query counter by one and sends one
\* query, nothing else does; in every reachable state the counter equals the
\* number of queries sent on the connection.
C6_CounterEqualsSent == uses = sent

\* C6 as amended: the counter equals the number of queries sent, except after
\* a send that raised, where it is one ahead (it is advanced before the send)
\* and the session has ended; the server never saw more queries than were sent.
C6_CounterTracksSent ==
    /\ uses \in {sent, sent + 1}
    /\ uses = sent + 1 => exc = "OSError" /\ pc \in {"CRASHED", "FAILED"}
    /\ exc = "" => uses = sent
    /\ idx + (IF inflight # -1 THEN 1 ELSE 0) <= sent
    /\ ~ServerGone => idx + (IF inflight # -1 THEN 1 ELSE 0) = sent

\* a send raised in the middle of the gcd, after the counter was advanced
C6_Witness ==
    /\ pc = "FAILED" /\ exc = "OSError" /\ f.op = "gcd"
    /\ uses = sent + 1 /\ sent > 2

\* C7: every failure of a session ends it as FAILED and the retry driver
\* goes on; no failure terminates the retry driver.
C7_NoFailureEndsDriver == pc # "CRASHED" /\ exc \in {"", "OSError"}

\* C8: an oracle call that raises a transport fault inside k.gcd(l) ends the
\* session FAILED, without validation and without a secret; a gcd that no call
\* failed in goes on to validation.
C8_GcdFaultFails ==
    [][pc = "GCD_COMPUTATION" /\ pc' # pc =>
          IF exc' = "OSError"
          THEN pc' = "FAILED" /\ result' = None /\ AtComparison(f)
          ELSE pc' = "VALIDATING" /\ exc' = "" /\ f.at = "ret"]_vars

\* a transport fault ended a session in the second division of the gcd
C8_Witness ==
    /\ pc = "FAILED" /\ exc = "OSError" /\ f.op = "gcd" /\ f.iteration = 2
    /\ result = None

\* C9: sampling moves to GCD_COMPUTATION once k and l have each passed the
\* self-test, and to FAILED only if the query count exceeded the setup budget
\* before both had been accepted.
C9_SamplingExit ==
    /\ pc = "GCD_COMPUTATION" => kAcc /\ lAcc
    /\ SetupFailed => (~(kAcc /\ lAcc) \/ uses - 1 > SETUP_MAX_INVOCATIONS)

\* C10: a session returns a secret only if the image of the gcd element is 1;
\* when that image is not 1 the session ends FAILED and returns nothing.
C10_SecretOnlyIfCoprime ==
    /\ (Returned \/ result # None) => Image(f.a) = 1
    /\ (f.op = "gcd" /\ f.at = "ret" /\ Image(f.a) # 1
          /\ pc \notin {"GCD_COMPUTATION", "VALIDATING"})
          => pc = "FAILED" /\ result = None

\* wrong answers made the gcd of two coprime plaintexts return an element
\* whose image is not 1, and the session failed
C10_Witness ==
    /\ pc = "FAILED" /\ exc = "" /\ TwoDivisions
    /\ Image(f.a) # 1
    /\ NatGcd(Hidden(k), Hidden(l)) = 1

(***************************************************************************)
(* Claims on the connection of a session.                                  *)
(***************************************************************************)
\* C11: the server answers MAX_REQUESTS queries on a connection and then
\* stops; every session ends SUCCEEDED or FAILED, and once that cap is
\* exceeded the session aborts instead of querying the same connection again:
\* the query that meets the silent server is the last one it sends.
C11_AbortsAtCap ==
    /\ sent <= MAX_REQUESTS + 1
    /\ (ServerGone /\ sent > MAX_REQUESTS /\ io = "idle")
          => pc \in {"SUCCEEDED", "FAILED", "DONE", "START"}

\* C12: the retry driver runs its sessions one after another; each session
\* opens its own connection and starts with a query counter of 0; a new
\* session is started after every FAILED session and none after the first
\* SUCCEEDED one.
C12_SessionsInSequence ==
    /\ [](pc = "FAILED" /\ attempt < MaxAttempts => ENABLED Retry)
    /\ [][/\ (pc # "START" /\ pc' = "START")
                => pc = "FAILED" /\ attempt' = attempt + 1
          /\ (pc = "FAILED" /\ pc' # pc) => pc' = "START"
          /\ attempt' # attempt => pc' = "START"
          /\ (pc = "START" /\ pc' = "SAMPLING")
                => /\ uses' = 0 /\ sent' = 0 /\ io' = "idle"
                   /\ idx' = 0 /\ inflight' = -1 /\ reply' = ""
          /\ pc \in {"SUCCEEDED", "DONE"}
                => pc' \in {pc, "DONE"} /\ attempt' = attempt]_vars

\* the first session failed, the second one succeeded and ended the driver
C12_Witness == pc = "DONE" /\ attempt = 2 /\ result = FLAG

(***************************************************************************)
(* The connection as a byte stream.  Spec lets every query meet its own     *)
(* response line; here the server's prints and the client's sock.recv are   *)
(* separate steps: a recv returns whatever output has arrived, not a line.  *)
(*   SpecWire    the oracle() calls of a session's self-tests               *)
(*   SpecServer  the server loop with any client                            *)
(* A unit of output (a token) is the banner line, the prompt 'Cipher: ',    *)
(* one 'Oracle Response: ...' line or the 'Invalid input' line; q is the    *)
(* number of the input a response line answers.                             *)
(***************************************************************************)
\* queries a client of SpecWire is followed for
MaxWireSent == 3
\* output of the server the connection holds before a print blocks
MaxPending == 4
\* lines of input the connection holds before the client of SpecServer waits
MaxPeerQueue == 2

BannerLine == [t |-> "banner", q |-> 0, v |-> FALSE]
Prompt == [t |-> "prompt", q |-> 0, v |-> FALSE]
InvalidInput == [t |-> "invalid", q |-> 0, v |-> FALSE]
OracleResponse(q, v) == [t |-> "response", q |-> q, v |-> v]

DigitChars == <<"0", "1", "2", "3", "4", "5", "6", "7", "8", "9">>
IsDigit(c) == \E d \in 0..9 : DigitChars[d + 1] = c
DigitValue(c) == CHOOSE d \in 0..9 : DigitChars[d + 1] = c

RECURSIVE ToDecimal(_)
\* f"{x}" for x >= 0
ToDecimal(x) ==
    IF x < 10 THEN <<DigitChars[x + 1]>>
    ELSE Append(ToDecimal(x \div 10), DigitChars[(x % 10) + 1])

RECURSIVE DigitsValue(_)
DigitsValue(line) ==
    IF line = <<>> THEN 0
    ELSE 10 * DigitsValue(SubSeq(line, 1, Len(line) - 1))
         + DigitValue(line[Len(line)])

\* int(line) on lines of digits and letters: ok is FALSE for the ValueError
ParseInt(line) ==
    IF line # <<>> /\ \A i \in 1..Len(line) : IsDigit(line[i])
    THEN [ok |-> TRUE, value |-> DigitsValue(line)]
    ELSE [ok |-> FALSE, value |-> 0]

\* 'True' in msg
HasTrue(m) == \E i \in 1..Len(m) : m[i].t = "response" /\ m[i].v

\* for idx in range(MAX_REQUESTS)
MoreRequests_inclusive(i) == i <= MAX_REQUESTS
MoreRequests(i) == i < MAX_REQUESTS

\* print(f"{key.n}; {key.e}; {encrypted_flag}")
SrvBanner ==
    /\ srv = "banner" /\ Len(rx) < MaxPending
    /\ rx' = Append(rx, BannerLine)
    /\ srv' = "prompt"
    /\ UNCHANGED <<pc, attempt, uses, sent, ph, k, l, kAcc, lAcc, f, io, inflight,
                   reply, idx, fixed_rnd, result, exc, c2s, msg>>

\* the loop test and the prompt of input("Cipher: ")
SrvPrompt ==
    /\ srv = "prompt" /\ Len(rx) < MaxPending
    /\ IF MoreRequests(idx)
       THEN rx' = Append(rx, Prompt) /\ srv' = "input"
       ELSE rx' = rx /\ srv' = "exit"
    /\ UNCHANGED <<pc, attempt, uses, sent, ph, k, l, kAcc, lAcc, f, io, inflight,
                   reply, idx, fixed_rnd, result, exc, c2s, msg>>

\* int(input(...)) and the print of the oracle response, or of
\* "Invalid input" followed by break
SrvInput ==
    /\ srv = "input" /\ c2s # <<>> /\ Len(rx) < MaxPending
    /\ LET number == ParseInt(Head(c2s))
       IN  IF number.ok
           THEN /\ \E rnd_number \in RND_MIN..max_rnd :
                      rx' = Append(rx, OracleResponse(idx + 1,
                                          Oracle(number.value, rnd_number)))
                /\ idx' = idx + 1
                /\ srv' = "prompt"
           ELSE /\ rx' = Append(rx, InvalidInput)
                /\ idx' = idx
                /\ srv' = "exit"
    /\ c2s' = Tail(c2s)
    /\ UNCHANGED <<pc, attempt, uses, sent, ph, k, l, kAcc, lAcc, f, io, inflight,
                   reply, fixed_rnd, result, exc, msg>>

\* candidates the self-tests of SpecWire draw: hidden plaintexts below every
\* threshold, between the thresholds and above every threshold
WireHidden == {3, 8, 40}
WireCandidates == {x \in 1..N : Hidden(x) \in WireHidden}

InitWire ==
    /\ pc = "WIRE_BANNER" /\ attempt = 1
    /\ uses = 0 /\ sent = 0 /\ ph = "k"
    /\ k = 0 /\ l = 0 /\ kAcc = FALSE /\ lAcc = FALSE
    /\ f = NoFrame /\ io = "idle" /\ inflight = -1 /\ reply = ""
    /\ idx = 0 /\ fixed_rnd = 0 /\ result = None /\ exc = ""
    /\ srv = "banner" /\ c2s = <<>> /\ rx = <<>> /\ msg = <<>>

\* sock.recv(4096) of line 29: blocks until some output has arrived
WireBanner ==
    /\ pc = "WIRE_BANNER" /\ rx # <<>>
    /\ msg' = rx /\ rx' = <<>>
    /\ pc' = "WIRE"
    /\ UNCHANGED <<attempt, uses, sent, ph, k, l, kAcc, lAcc, f, io, inflight,
                   reply, idx, fixed_rnd, result, exc, srv, c2s>>

\* oracle(candidate.image) up to sock.send (lines 36-38)
WireSend ==
    /\ pc = "WIRE" /\ io = "idle" /\ sent < MaxWireSent
    /\ \E x \in WireCandidates :
          /\ k' = x
          /\ c2s' = Append(c2s, ToDecimal(Query(x, 0)))
    /\ uses' = Count(uses)
    /\ sent' = sent + 1
    /\ io' = "wait"
    /\ UNCHANGED <<pc, attempt, ph, l, kAcc, lAcc, f, inflight, reply, idx,
                   fixed_rnd, result, exc, srv, rx, msg>>

\* msg = sock.recv(1024); return 'True' in msg  (lines 39-40): recv blocks
\* until some output has arrived and returns b'' at end of file
WireRecv ==
    /\ pc = "WIRE" /\ io = "wait"
    /\ rx # <<>> \/ srv = "exit"
    /\ msg' = rx /\ rx' = <<>>
    /\ kAcc' = HasTrue(rx)
    /\ io' = "idle"
    /\ UNCHANGED <<pc, attempt, uses, sent, ph, k, l, lAcc, f, inflight, reply,
                   idx, fixed_rnd, result, exc, srv, c2s>>

NextWire == SrvBanner \/ SrvPrompt \/ SrvInput \/ WireBanner \/ WireSend \/ WireRecv

SpecWire == InitWire /\ [][NextWire]_vars

\* lines a client of the server may write: numbers and non-numbers
PeerLines ==
    {ToDecimal(Query(x, 0)) : x \in WireCandidates} \cup {<<>>, <<"1", "x">>}

InitServer ==
    /\ pc = "PEER" /\ attempt = 1
    /\ uses = 0 /\ sent = 0 /\ ph = "k"
    /\ k = 0 /\ l = 0 /\ kAcc = FALSE /\ lAcc = FALSE
    /\ f = NoFrame /\ io = "idle" /\ inflight = -1 /\ reply = ""
    /\ idx = 0 /\ fixed_rnd = 0 /\ result = None /\ exc = ""
    /\ srv = "banner" /\ c2s = <<>> /\ rx = <<>> /\ msg = <<>>

\* any client writes a line
PeerSend ==
    /\ pc = "PEER" /\ Len(c2s) < MaxPeerQueue
    /\ \E line \in PeerLines : c2s' = Append(c2s, line)
    /\ sent' = sent + 1
    /\ UNCHANGED <<pc, attempt, uses, ph, k, l, kAcc, lAcc, f, io, inflight,
                   reply, idx, fixed_rnd, result, exc, srv, rx, msg>>

\* any client reads what has arrived
PeerRecv ==
    /\ pc = "PEER" /\ rx # <<>>
    /\ msg' = rx /\ rx' = <<>>
    /\ UNCHANGED <<pc, attempt, uses, sent, ph, k, l, kAcc, lAcc, f, io, inflight,
                   reply, idx, fixed_rnd, result, exc, srv, c2s>>

NextServer == SrvBanner \/ SrvPrompt \/ SrvInput \/ PeerSend \/ PeerRecv

SpecServer == InitServer /\ [][NextServer]_vars

\* the response lines in what a recv returned
Responses(m) == SelectSeq(m, LAMBDA t : t.t = "response")
\* an oracle() call of SpecWire has returned
WireReturned == pc = "WIRE" /\ io = "idle" /\ sent >= 1

\* C13: for every query the client sends, the boolean oracle() returns is the
\* server's answer to that same query: the recv of the call reads exactly the
\* one response line produced for it, under every interleaving of the
\* server's prints with the client's reads.
C13_AnswersOwnQuery ==
    WireReturned =>
        /\ Len(Responses(msg)) = 1
        /\ Responses(msg)[1].q = sent
        /\ kAcc = Responses(msg)[1].v

\* C14: oracle() fails with a fault, rather than returning a boolean, whenever
\* the connection is closed or the reply is malformed: a call whose recv
\* returned no response line (empty data at end of file) raises.
C14_FaultOnClosedOrMalformed ==
    [][(/\ pc \in {"SAMPLING", "GCD_COMPUTATION"}
        /\ io = "wait" /\ io' = "idle"
        /\ reply = "")
          => exc' # "" /\ pc' \in {"FAILED", "CRASHED"}]_vars

\* a step of the server printed an oracle response
NewResponse == Len(rx') = Len(rx) + 1 /\ rx'[Len(rx')].t = "response"
\* a step of the server consumed a line of input
InputRead == Len(c2s') < Len(c2s)

\* C15: on one connection the server answers at most MAX_REQUESTS queries;
\* after MAX_REQUESTS inputs, or after the first input that is not a decimal
\* integer, it prints no further oracle response on that connection.
C15_AtMostMaxRequests ==
    /\ [](idx <= MAX_REQUESTS)
    /\ [][/\ NewResponse <=> idx' = idx + 1
          /\ NewResponse
                => /\ srv = "input" /\ InputRead
                   /\ ParseInt(Head(c2s)).ok
                   /\ idx < MAX_REQUESTS
          /\ (InputRead /\ ~ParseInt(Head(c2s)).ok)
                => srv' = "exit" /\ ~NewResponse
          /\ (srv = "prompt" /\ idx = MAX_REQUESTS /\ srv' # srv)
                => srv' = "exit" /\ rx' = rx
          /\ srv = "exit" => srv' = "exit" /\ ~NewResponse /\ ~InputRead]_vars

\* the server has left its loop after MAX_REQUESTS answers with a further
\* input waiting
C15_Witness == srv = "exit" /\ idx = MAX_REQUESTS /\ c2s # <<>>

(***************************************************************************)
(* Claims on gcd and divmod over the non-negative integers.                *)
(***************************************************************************)
\* gcd(self, other) on non-negative integers
IntGcdNat == pc = "INT" /\ f.op = "gcd" /\ f.self >= 0 /\ f.other >= 0

\* C16: with the exact comparator on the non-negative integers gcd(self,
\* other) terminates for every pair, other = 0 included; the element it
\* returns is the greatest common divisor (gcd(17, 5) returns 1); the loop
\* ends exactly when a remainder is zero.
C16_GcdOfNaturals ==
    /\ [](IntGcdNat => (f.at = "ret" <=> f.b = 0))
    /\ [](IntGcdNat /\ f.at = "ret" => f.a = NatGcd(f.self, f.other))
    /\ [](IntGcdNat /\ f.at = "ret" /\ f.self = 17 /\ f.other = 5 => f.a = 1)
    /\ [][(IntGcdNat /\ f'.iteration = f.iteration + 1)
             => f'.a = f.b /\ 0 <= f'.b /\ f'.b < f.b]_vars
    /\ (IntGcdNat ~> f.at = "ret")

\* gcd(17, 5) has returned after its three divisions
C16_Witness ==
    /\ IntGcdNat /\ f.at = "ret"
    /\ f.self = 17 /\ f.other = 5 /\ f.a = 1 /\ f.iteration = 4

(***************************************************************************)
(* Further claims on the session.                                          *)
(***************************************************************************)
\* C17: whatever the comparator answers, after every iteration of the gcd
\* loop a = alpha_a*self + beta_a*other and b = alpha_b*self + beta_b*other
\* on the pre_images, because divmod returns remainder = self - other*quotient;
\* so the triple gcd returns satisfies the Bezout identity on the pre_images.
C17_BezoutEveryIteration ==
    /\ [](f.op = "gcd" =>
            /\ f.a = f.alpha_a * f.self + f.beta_a * f.other
            /\ f.b = f.alpha_b * f.self + f.beta_b * f.other)
    /\ [](pc = "VALIDATING" => f.a = f.alpha_a * k + f.beta_a * l)
    /\ [][(f.op = "gcd" /\ f'.iteration = f.iteration + 1)
             => /\ f'.remainder = f.a - f.b * f'.quotient
                /\ f'.a = f.b /\ f'.b = f'.remainder]_vars

\* gcd returned to the session after two divisions, the first of them with a
\* quotient the hidden plaintexts do not have
C17_Witness ==
    /\ pc = "VALIDATING" /\ TwoDivisions
    /\ FirstQuotient # Hidden(f.self) \div Hidden(f.other)
    /\ f.alpha_a * k + f.beta_a * l = f.a

\* C18: k.gcd(l) is invoked only when both k and l were accepted by the
\* self-test and the query counter is at most SETUP_MAX_INVOCATIONS; a
\* candidate left in k or l by a sampling loop that stopped on the budget is
\* never passed to gcd.
C18_GcdOnlyOnAccepted ==
    /\ [](f.op = "gcd" => kAcc /\ lAcc /\ f.self = k /\ f.other = l)
    /\ [](pc \in {"GCD_COMPUTATION", "VALIDATING"} => f.op = "gcd")
    /\ [][(pc # "GCD_COMPUTATION" /\ pc' = "GCD_COMPUTATION")
             => /\ pc = "SAMPLING"
                /\ kAcc' /\ lAcc'
                /\ uses' <= SETUP_MAX_INVOCATIONS
                /\ f' = GcdStart(k', l', "ring")]_vars

\* k.gcd(l) has just been invoked by a session that used its whole budget
C18_Witness ==
    /\ pc = "GCD_COMPUTATION" /\ io = "idle"
    /\ f.iteration = 1 /\ f.at = "exp" /\ f.hi = 1
    /\ uses = SETUP_MAX_INVOCATIONS /\ kAcc /\ lAcc

RECURSIVE FirstExp(_, _, _)
\* the least exponent j >= i with other * 2^j >= self
FirstExp(self, other, i) ==
    IF other * Pow2(i) >= self THEN i ELSE FirstExp(self, other, i + 1)

RECURSIVE Log2Floor(_)
Log2Floor(q) == IF q < 2 THEN 0 ELSE 1 + Log2Floor(q \div 2)

\* divmod(self, other) on positive integers
IntDivmodPos == pc = "INT" /\ f.op = "divmod" /\ f.self > 0 /\ f.other > 0

\* C19: with the exact comparator and positive operands divmod makes exactly
\* 2*i + 2 comparisons, 2^i being the first power of two from 2^0 on with
\* other*2^i >= self: i + 1 in the exponential search, i in the binary search
\* and 1 for the final choice; that is at most 2*floor(log2(q)) + 4 for a
\* quotient q >= 1 and exactly 2 when self <= other.
C19_ComparisonCount ==
    IntDivmodPos =>
        LET i == FirstExp(f.self, f.other, 0)
        IN  /\ f.at = "exp" => uses <= i /\ f.hi = Pow2(uses)
            /\ f.at = "bin" => i + 1 <= uses /\ uses < 2 * i + 1
            /\ f.at = "fin" => uses = 2 * i + 1
            /\ f.at = "ret" =>
                  /\ uses = 2 * i + 2
                  /\ f.quotient >= 1 => uses <= 2 * Log2Floor(f.quotient) + 4
                  /\ f.self <= f.other => uses = 2

\* divmod(17, 2) has returned 8 after 10 comparisons, its bound
C19_Witness ==
    /\ IntDivmodPos /\ f.at = "ret"
    /\ f.self = 17 /\ f.other = 2 /\ f.quotient = 8
    /\ uses = 10 /\ uses = 2 * Log2Floor(f.quotient) + 4

\* C20: the error of the oracle is one-sided: a query whose decrypted value
\* is at least max_rnd is answered False and one whose decrypted value is
\* below 7 is answered True, for every threshold; so every candidate the
\* self-test accepts has a hidden plaintext strictly below max_rnd.
C20_AcceptedBelowMaxRnd ==
    /\ \A cipher \in 0..(N - 1), rnd_number \in RND_MIN..max_rnd :
          /\ PowMod(cipher, D, N) >= max_rnd => ~Oracle(cipher, rnd_number)
          /\ PowMod(cipher, D, N) < RND_MIN => Oracle(cipher, rnd_number)
    /\ (WireReturned /\ kAcc) => Hidden(k) < max_rnd

====
